---------------------------- MODULE Spec2Model ----------------------------
(***************************************************************************)
(* The Phoenix adapter for the Jupiter aggregator (src/src/lib.rs): the    *)
(* JupiterPhoenix struct, its construction from a keyed account, update    *)
(* from an accounts map, and quote, which walks the ladder.                *)
(*                                                                         *)
(* Every u64 of the program is held as the sequence of its base-2^8 digits,*)
(* least significant first and without leading zero digits (the value 0 is *)
(* the empty sequence), so that the 64-bit width of the arithmetic, and    *)
(* what happens beyond it, is part of the model.                           *)
(***************************************************************************)
EXTENDS Integers, Sequences, FiniteSets, TLC

(***************************************************************************)
(* Exact arithmetic on natural numbers of any size.                        *)
(***************************************************************************)
Radix == 2^8

RECURSIVE Norm(_)
Norm(s) ==
    IF s = <<>> THEN <<>>
    ELSE IF s[Len(s)] = 0 THEN Norm(SubSeq(s, 1, Len(s) - 1))
    ELSE s

RECURSIVE FromNat(_)
FromNat(n) ==
    IF n = 0 THEN <<>> ELSE <<n % Radix>> \o FromNat(n \div Radix)

\* The value of a number of at most three digits (below 2^24).
RECURSIVE ToNat(_)
ToNat(a) ==
    IF a = <<>> THEN 0 ELSE a[1] + Radix * ToNat(Tail(a))

IsSmall(a) == Len(a) <= 3

\* -1, 0 or 1 as a < b, a = b, a > b.
RECURSIVE CmpFrom(_, _, _)
CmpFrom(a, b, i) ==
    IF i = 0 THEN 0
    ELSE IF a[i] < b[i] THEN -1
    ELSE IF a[i] > b[i] THEN 1
    ELSE CmpFrom(a, b, i - 1)

Cmp(a, b) ==
    IF Len(a) < Len(b) THEN -1
    ELSE IF Len(a) > Len(b) THEN 1
    ELSE CmpFrom(a, b, Len(a))

Le(a, b) == Cmp(a, b) <= 0
Lt(a, b) == Cmp(a, b) < 0

Digit(a, i) == IF i <= Len(a) THEN a[i] ELSE 0

RECURSIVE AddFrom(_, _, _, _)
AddFrom(a, b, i, carry) ==
    IF i > Len(a) /\ i > Len(b)
    THEN (IF carry = 0 THEN <<>> ELSE <<carry>>)
    ELSE LET t == Digit(a, i) + Digit(b, i) + carry
         IN  <<t % Radix>> \o AddFrom(a, b, i + 1, t \div Radix)

Add(a, b) ==
    IF IsSmall(a) /\ IsSmall(b) THEN FromNat(ToNat(a) + ToNat(b))
    ELSE AddFrom(a, b, 1, 0)

\* a - b for b <= a.
RECURSIVE SubFrom(_, _, _, _)
SubFrom(a, b, i, borrow) ==
    IF i > Len(a) THEN <<>>
    ELSE LET t == a[i] - Digit(b, i) - borrow
         IN  IF t < 0 THEN <<t + Radix>> \o SubFrom(a, b, i + 1, 1)
             ELSE <<t>> \o SubFrom(a, b, i + 1, 0)

Sub(a, b) ==
    IF IsSmall(a) /\ IsSmall(b) THEN FromNat(ToNat(a) - ToNat(b))
    ELSE Norm(SubFrom(a, b, 1, 0))

RECURSIVE ColSum(_, _, _, _)
ColSum(a, b, k, i) ==
    IF i > Len(a) \/ i > k THEN 0
    ELSE Digit(b, k + 1 - i) * a[i] + ColSum(a, b, k, i + 1)

RECURSIVE MulFrom(_, _, _, _)
MulFrom(a, b, k, carry) ==
    IF k > Len(a) + Len(b) THEN <<>>
    ELSE LET t == ColSum(a, b, k, 1) + carry
         IN  <<t % Radix>> \o MulFrom(a, b, k + 1, t \div Radix)

Mul(a, b) ==
    IF Len(a) + Len(b) <= 3 THEN FromNat(ToNat(a) * ToNat(b))
    ELSE Norm(MulFrom(a, b, 1, 0))

\* The largest q in lo..hi with q * b <= t, given lo * b <= t.
RECURSIVE QuotDigit(_, _, _, _)
QuotDigit(t, b, lo, hi) ==
    IF lo = hi THEN lo
    ELSE LET mid == (lo + hi + 1) \div 2
         IN  IF Le(Mul(b, FromNat(mid)), t)
             THEN QuotDigit(t, b, mid, hi)
             ELSE QuotDigit(t, b, lo, mid - 1)

\* Long division of a by b > 0, from the most significant digit i down to
\* the first: q collects the quotient digits, r is the running remainder.
RECURSIVE DivFrom(_, _, _, _, _)
DivFrom(a, b, i, q, r) ==
    IF i = 0 THEN q
    ELSE LET t == Norm(<<a[i]>> \o r)
             d == QuotDigit(t, b, 0, Radix - 1)
         IN  DivFrom(a, b, i - 1, <<d>> \o q, Sub(t, Mul(b, FromNat(d))))

Div(a, b) ==
    IF IsSmall(a) /\ IsSmall(b) THEN FromNat(ToNat(a) \div ToNat(b))
    ELSE IF Lt(a, b) THEN <<>>
    ELSE Norm(DivFrom(a, b, Len(a), <<>>, <<>>))

Min(a, b) == IF Le(a, b) THEN a ELSE b

\* 2^32 and 2^64, digit by digit.
TwoTo32 == <<0, 0, 0, 0, 1>>
TwoTo64 == <<0, 0, 0, 0, 0, 0, 0, 0, 1>>

(***************************************************************************)
(* The machine's u64.  A computed u64 is a record of its value v (below    *)
(* 2^64, as the wrapping build computes it) and two flags on how it was    *)
(* reached: ovf, an operation's exact result did not fit 64 bits, and dz,  *)
(* a division had a zero divisor.  What a flag does to the call (wrap,     *)
(* panic) is decided where the call returns.                               *)
(***************************************************************************)
U64Digits == 64 \div 8

Zero == <<>>

Fits64(a) == Len(a) <= U64Digits

Trunc64(a) ==
    IF Fits64(a) THEN a ELSE Norm(SubSeq(a, 1, U64Digits))

U(v) == [v |-> v, ovf |-> FALSE, dz |-> FALSE]

\* The exact result p of an operation on a and b, as a u64.
Wrapped(p, a, b) ==
    [v |-> Trunc64(p), ovf |-> a.ovf \/ b.ovf \/ ~ Fits64(p),
     dz |-> a.dz \/ b.dz]

\* A result v that fits, of an operation on a and b.
Exact(v, a, b) ==
    [v |-> v, ovf |-> a.ovf \/ b.ovf, dz |-> a.dz \/ b.dz]

u64_mul(a, b) == Wrapped(Mul(a.v, b.v), a, b)

u64_add(a, b) == Wrapped(Add(a.v, b.v), a, b)

\* a - b: below zero it wraps to 2^64 + a - b.
u64_sub(a, b) ==
    IF Le(b.v, a.v) THEN Exact(Sub(a.v, b.v), a, b)
    ELSE [Exact(Sub(Add(TwoTo64, a.v), b.v), a, b) EXCEPT !.ovf = TRUE]

u64_div(a, b) ==
    IF b.v = Zero THEN [Exact(Zero, a, b) EXCEPT !.dz = TRUE]
    ELSE Exact(Div(a.v, b.v), a, b)

u64_min(a, b) == Exact(Min(a.v, b.v), a, b)

\* The subtraction as it would be if it were skipped when it would go below
\* zero, so that a level larger than the budget does not exhaust it.
saturating_sub_skipping(a, b) ==
    Exact(IF Le(b.v, a.v) THEN Sub(a.v, b.v) ELSE a.v, a, b)

\* u64::saturating_sub.
saturating_sub(a, b) ==
    Exact(IF Le(b.v, a.v) THEN Sub(a.v, b.v) ELSE Zero, a, b)

(***************************************************************************)
(* Accounts.  The data of a market account is its byte length, whether the *)
(* buffer is aligned for MarketHeader, the fields of the header (when the  *)
(* bytes hold one) and the market behind it: the taker fee and the resting *)
(* orders of each side in priority order.                                  *)
(***************************************************************************)
MarketHeaderSize == 576

Mints == {"SOL", "BONK", "USDC"}

\* The size parameters (bids, asks, seats) that load_with_dispatch knows.
SupportedSizeParams ==
    {<<512, 512, 128>>, <<1024, 1024, 128>>, <<2048, 2048, 128>>,
     <<4096, 4096, 128>>}

Order(price, size) ==
    [price_in_ticks |-> price, size_in_base_lots |-> size]

\* metadata_ok: whether MarketMetadata::from_header accepts the header (the
\* call is fallible; what it rejects is decided in phoenix_sdk_core).
Header(params, base, base_dec, base_lot, quote, quote_dec, quote_lot, tick) ==
    [market_size_params |-> params,
     base_mint |-> base, base_decimals |-> base_dec, base_lot_size |-> base_lot,
     quote_mint |-> quote, quote_decimals |-> quote_dec,
     quote_lot_size |-> quote_lot,
     tick_size_in_quote_atoms_per_base_unit |-> tick,
     metadata_ok |-> TRUE]

Data(len, aligned, header, fee, bids, asks) ==
    [len |-> len, aligned |-> aligned, header |-> header,
     market |-> [taker_fee_bps |-> fee, bids |-> bids, asks |-> asks]]

FullLen == MarketHeaderSize + 2^16

\* SOL/USDC with lots of 1_000_000 base atoms and one quote atom.
HeaderA ==
    Header(<<512, 512, 128>>, "SOL", 6, FromNat(1000000), "USDC", 6,
           FromNat(1), FromNat(1))

\* BONK/USDC with quote lots of 10 atoms.
HeaderB ==
    Header(<<1024, 1024, 128>>, "BONK", 0, FromNat(1), "USDC", 6,
           FromNat(10), FromNat(10))

\* SOL/USDC with 100 base lots per base unit and a tick of one quote atom.
HeaderC ==
    Header(<<2048, 2048, 128>>, "SOL", 2, FromNat(1), "USDC", 6,
           FromNat(1), FromNat(1))

\* SOL/USDC with 1000 base lots per base unit and a tick of 1000 quote atoms
\* (one quote atom per base lot and tick).
HeaderD ==
    Header(<<4096, 4096, 128>>, "SOL", 3, FromNat(1), "USDC", 6,
           FromNat(1), FromNat(1000))

\* The least price in ticks whose product with the tick size of HeaderD
\* (1000) exceeds 64 bits: 1000 * 18446744073709552 = 2^64 + 384.
AbsurdPrice == <<240, 167, 198, 75, 55, 137, 65>>

KeyedAccounts ==
    { [key |-> "MarketA",
       data |-> Data(FullLen, TRUE, HeaderA, FromNat(0),
                     <<Order(FromNat(90), FromNat(4))>>,
                     <<Order(FromNat(100), FromNat(5))>>)],
      [key |-> "MarketA",
       data |-> Data(FullLen, TRUE, HeaderA, FromNat(5), <<>>, <<>>)],
      [key |-> "MarketA",
       data |-> Data(100, TRUE, HeaderA, FromNat(0), <<>>, <<>>)],
      [key |-> "MarketA",
       data |-> Data(FullLen, FALSE, HeaderA, FromNat(0), <<>>, <<>>)],
      [key |-> "MarketA",
       data |-> Data(FullLen, TRUE,
                     [HeaderA EXCEPT !.market_size_params = <<1, 1, 1>>],
                     FromNat(0), <<>>, <<>>)],
      [key |-> "MarketA",
       data |-> Data(FullLen, TRUE, [HeaderA EXCEPT !.metadata_ok = FALSE],
                     FromNat(0), <<>>, <<>>)],
      [key |-> "MarketB",
       data |-> Data(FullLen, TRUE, HeaderB, FromNat(5),
                     <<Order(FromNat(3), FromNat(1)), Order(FromNat(2), FromNat(1)),
                       Order(FromNat(2), FromNat(1)), Order(FromNat(1), FromNat(1))>>,
                     <<Order(FromNat(4), FromNat(2)), Order(FromNat(5), FromNat(3))>>)],
      [key |-> "MarketB",
       data |-> Data(FullLen, TRUE, HeaderB, FromNat(5),
                     <<Order(FromNat(2), FromNat(5))>>, <<>>)],
      [key |-> "MarketC",
       data |-> Data(FullLen, TRUE, HeaderC, FromNat(0),
                     <<Order(FromNat(1), FromNat(100))>>,
                     <<Order(FromNat(1), FromNat(40)), Order(FromNat(2), FromNat(40)),
                       Order(FromNat(3), FromNat(40))>>)],
      [key |-> "MarketD",
       data |-> Data(FullLen, TRUE, HeaderD, FromNat(0),
                     <<Order(FromNat(50), FromNat(10))>>,
                     <<Order(FromNat(100), FromNat(2)),
                       Order(AbsurdPrice, FromNat(1000))>>)] }

Keys == {ka.key : ka \in KeyedAccounts}

\* The accounts maps handed to update: empty, or holding one account.
AccountsMaps ==
    {<<>>} \cup {[k \in {ka.key} |-> ka.data] : ka \in KeyedAccounts}

\* The largest of the small input amounts quoted (each amount up to it is).
MaxSmallAmount == 5

InAmounts ==
    {FromNat(k) : k \in 0..MaxSmallAmount}
        \cup {FromNat(100), FromNat(2000000), TwoTo32}

QuoteParamsSet ==
    {qp \in [in_amount : InAmounts, input_mint : Mints, output_mint : Mints] :
        qp.input_mint # qp.output_mint}

(***************************************************************************)
(* Decoding.                                                               *)
(***************************************************************************)
Ok(v) == [ret |-> "Ok", err |-> "", val |-> <<v>>]
Err(e) == [ret |-> "Err", err |-> e, val |-> <<>>]
Panic == [ret |-> "panic", err |-> "", val |-> <<>>]

\* slice::split_at panics when the data is shorter than the header.
split_at_ok(data) == data.len >= MarketHeaderSize

\* bytemuck::try_from_bytes on a slice of the header's size: an error (which
\* the code unwraps) when the slice is not aligned for MarketHeader.
try_from_bytes_ok(data) == data.aligned

\* phoenix load_with_dispatch: the market behind the header, or an error for
\* size parameters it does not know.
load_with_dispatch(market_size_params, data) ==
    IF market_size_params \in SupportedSizeParams
    THEN Ok(data.market)
    ELSE Err("ProgramError")

RECURSIVE Pow10(_)
Pow10(k) == IF k = 0 THEN <<1>> ELSE Mul(FromNat(10), Pow10(k - 1))

\* MarketMetadata::from_header(header)?: the conversion factors of the
\* market, or the error of a header it does not accept.
from_header(header) ==
    IF ~ header.metadata_ok THEN Err("MetadataError")
    ELSE Ok([base_decimals |-> header.base_decimals,
             quote_decimals |-> header.quote_decimals,
             base_atoms_per_base_lot |-> header.base_lot_size,
             quote_atoms_per_quote_lot |-> header.quote_lot_size,
             tick_size_in_quote_atoms_per_base_unit |->
                 header.tick_size_in_quote_atoms_per_base_unit,
             num_base_lots_per_base_unit |->
                 Div(Pow10(header.base_decimals), header.base_lot_size)])

\* One side of Market::get_ladder(u64::MAX): the resting orders, in priority
\* order, with those of one price added up into one level.
RECURSIVE get_ladder_side(_, _)
get_ladder_side(orders, levels) ==
    IF orders = <<>> THEN levels
    ELSE LET o == Head(orders)
             n == Len(levels)
         IN  IF n > 0 /\ levels[n].price_in_ticks = o.price_in_ticks
             THEN get_ladder_side(Tail(orders),
                      [levels EXCEPT ![n].size_in_base_lots =
                          Add(@, o.size_in_base_lots)])
             ELSE get_ladder_side(Tail(orders), Append(levels, o))

get_ladder(market) ==
    [bids |-> get_ladder_side(market.bids, <<>>),
     asks |-> get_ladder_side(market.asks, <<>>)]

\* `as u16`.
as_u16(v) ==
    IF Len(v) <= 2 THEN ToNat(v) ELSE ToNat(SubSeq(v, 1, 2))

(***************************************************************************)
(* JupiterPhoenix::new_from_keyed_account                                  *)
(***************************************************************************)
new_from_keyed_account(keyed_account) ==
    LET data == keyed_account.data IN
    IF ~ split_at_ok(data) THEN Panic
    ELSE IF ~ try_from_bytes_ok(data) THEN Panic
    ELSE LET header == data.header
             market == load_with_dispatch(header.market_size_params, data)
             market_metadata == from_header(header)
         IN  IF market.ret = "Err" THEN Err(market.err)
             ELSE IF market_metadata.ret = "Err" THEN Err(market_metadata.err)
             ELSE Ok([market_key |-> keyed_account.key,
                      label |-> "Phoenix",
                      base_mint |-> header.base_mint,
                      quote_mint |-> header.quote_mint,
                      taker_fee_bps |-> as_u16(market.val[1].taker_fee_bps),
                      market_metadata |-> market_metadata.val[1],
                      ladder |-> get_ladder(market.val[1])])

(***************************************************************************)
(* JupiterPhoenix::update: the outcome and the adapter after the call.     *)
(***************************************************************************)
Outcome(ret, err, self) == [ret |-> ret, err |-> err, self |-> self]

\* update as it would be if the refresh also took the taker fee of the new
\* bytes.
update_refreshing_fee(self, accounts_map) ==
    IF self.market_key \notin DOMAIN accounts_map
    THEN Outcome("panic", "", self)
    ELSE LET data == accounts_map[self.market_key] IN
         IF ~ split_at_ok(data) \/ ~ try_from_bytes_ok(data)
         THEN Outcome("panic", "", self)
         ELSE LET market ==
                      load_with_dispatch(data.header.market_size_params, data)
              IN  IF market.ret = "Err" THEN Outcome("Err", market.err, self)
                  ELSE Outcome("Ok", "",
                           [self EXCEPT
                               !.ladder = get_ladder(market.val[1]),
                               !.taker_fee_bps =
                                   as_u16(market.val[1].taker_fee_bps)])

update(self, accounts_map) ==
    IF self.market_key \notin DOMAIN accounts_map
    THEN Outcome("panic", "", self)
    ELSE LET data == accounts_map[self.market_key] IN
         IF ~ split_at_ok(data) THEN Outcome("panic", "", self)
         ELSE IF ~ try_from_bytes_ok(data) THEN Outcome("panic", "", self)
         ELSE LET market ==
                      load_with_dispatch(data.header.market_size_params, data)
              IN  IF market.ret = "Err" THEN Outcome("Err", market.err, self)
                  ELSE Outcome("Ok", "",
                           [self EXCEPT !.ladder = get_ladder(market.val[1])])

(***************************************************************************)
(* JupiterPhoenix::quote.                                                  *)
(***************************************************************************)
FeeDenominator == 10000

\* MarketMetadata::base_lots_and_price_to_quote_atoms:
\* base_lots * price_in_ticks * tick_size_in_quote_atoms_per_base_unit
\*     / num_base_lots_per_base_unit
base_lots_and_price_to_quote_atoms(meta, base_lots, price_in_ticks) ==
    u64_div(u64_mul(u64_mul(base_lots, price_in_ticks),
                    U(meta.tick_size_in_quote_atoms_per_base_unit)),
            U(meta.num_base_lots_per_base_unit))

\* The budget as it would be if the input atoms were taken as lots.
base_lot_budget_in_atoms(self, in_amount) == U(in_amount)

\* quote_params.in_amount / self.base_atoms_per_base_lot
base_lot_budget(self, in_amount) ==
    u64_div(U(in_amount), U(self.market_metadata.base_atoms_per_base_lot))

\* quote_params.in_amount / self.quote_atoms_per_quote_lot
quote_lot_budget(self, in_amount) ==
    u64_div(U(in_amount), U(self.market_metadata.quote_atoms_per_quote_lot))

\* What a walk leaves: out_amount, with the flags of everything computed on
\* the way, and the base lots each visited level filled.
Walked(out_amount, budget, fills) ==
    [out |-> Exact(out_amount.v, out_amount, budget), fills |-> fills]

\* size_in_base_lots.min(&base_lot_budget)
filled_at_bid(level, budget) ==
    u64_min(U(level.size_in_base_lots), budget)

\* The loop over self.ladder.bids, from level i on.
RECURSIVE walk_bids(_, _, _, _, _)
walk_bids(self, i, budget, out_amount, fills) ==
    IF i > Len(self.ladder.bids) \/ budget.v = Zero
    THEN Walked(out_amount, budget, fills)
    ELSE walk_bids(self, i + 1,
             saturating_sub(budget, U(self.ladder.bids[i].size_in_base_lots)),
             u64_add(out_amount,
                 base_lots_and_price_to_quote_atoms(self.market_metadata,
                     filled_at_bid(self.ladder.bids[i], budget),
                     U(self.ladder.bids[i].price_in_ticks))),
             Append(fills, filled_at_bid(self.ladder.bids[i], budget).v))

\* size_in_base_lots.min(&((quote_lot_budget * num_base_lots_per_base_unit)
\*     / (tick_size_in_quote_atoms_per_base_unit * price_in_ticks)))
filled_at_ask(self, level, budget) ==
    u64_min(U(level.size_in_base_lots),
        u64_div(u64_mul(budget,
                    U(self.market_metadata.num_base_lots_per_base_unit)),
                u64_mul(U(self.market_metadata
                              .tick_size_in_quote_atoms_per_base_unit),
                        U(level.price_in_ticks))))

\* The output as it would be if the lots were scaled by the quote lot size.
base_atoms_out_by_quote_lot(self, filled) ==
    u64_mul(filled, U(self.market_metadata.quote_atoms_per_quote_lot))

\* ... * self.base_atoms_per_base_lot
base_atoms_out(self, filled) ==
    u64_mul(filled, U(self.market_metadata.base_atoms_per_base_lot))

\* The loop over self.ladder.asks, from level i on; filled is what level i
\* gives for the budget.
RECURSIVE walk_asks(_, _, _, _, _)
RECURSIVE walk_asks_level(_, _, _, _, _, _)
walk_asks_level(self, i, budget, out_amount, fills, filled) ==
    walk_asks(self, i + 1,
        saturating_sub(budget,
            base_lots_and_price_to_quote_atoms(self.market_metadata,
                U(self.ladder.asks[i].size_in_base_lots),
                U(self.ladder.asks[i].price_in_ticks))),
        u64_add(out_amount, base_atoms_out(self, filled)),
        Append(fills, filled.v))

walk_asks(self, i, budget, out_amount, fills) ==
    IF i > Len(self.ladder.asks) \/ budget.v = Zero
    THEN Walked(out_amount, budget, fills)
    ELSE walk_asks_level(self, i, budget, out_amount, fills,
             filled_at_ask(self, self.ladder.asks[i], budget))

\* The walk of quote: the bids when the input is the base mint, the asks
\* for every other input mint.
walk(self, quote_params) ==
    IF quote_params.input_mint = self.base_mint
    THEN walk_bids(self, 1, base_lot_budget(self, quote_params.in_amount),
                   U(Zero), <<>>)
    ELSE walk_asks(self, 1, quote_lot_budget(self, quote_params.in_amount),
                   U(Zero), <<>>)

\* (out_amount * (10000 - self.taker_fee_bps as u64)) / 10000
apply_taker_fee(self, out_amount) ==
    u64_div(u64_mul(out_amount,
                    u64_sub(U(FromNat(FeeDenominator)),
                            U(FromNat(self.taker_fee_bps)))),
            U(FromNat(FeeDenominator)))

\* What quote returns for the computed out_amount: a zero divisor panics; a
\* result beyond 64 bits panics in a build that checks overflow and has
\* wrapped in one that does not.
quote_returns(out_amount, fills, checks) ==
    IF out_amount.dz \/ (checks /\ out_amount.ovf)
    THEN [ret |-> "panic", err |-> "", out_amount |-> Zero,
          overflowed |-> out_amount.ovf, fills |-> <<>>]
    ELSE [ret |-> "Ok", err |-> "", out_amount |-> out_amount.v,
          overflowed |-> out_amount.ovf, fills |-> fills]

quote_walked(self, walked, checks) ==
    quote_returns(apply_taker_fee(self, walked.out), walked.fills, checks)

quote(self, quote_params, checks) ==
    quote_walked(self, walk(self, quote_params), checks)

(***************************************************************************)
(* The state: the adapter (none before a construction succeeds), the       *)
(* build's overflow checking, the last call with its outcome, and for the  *)
(* record the keyed account the adapter was built from and the data its    *)
(* ladder was last decoded from.                                           *)
(***************************************************************************)
VARIABLES amm, overflow_checks, last, origin, snapshot

vars == <<amm, overflow_checks, last, origin, snapshot>>

Init ==
    /\ amm = <<>>
    /\ overflow_checks \in BOOLEAN
    /\ last = [op |-> "none", ret |-> "Ok", err |-> ""]
    /\ origin = <<>>
    /\ snapshot = <<>>

\* from_keyed_account / new_from_keyed_account
Construct(keyed_account) ==
    /\ amm = <<>>
    /\ LET r == new_from_keyed_account(keyed_account) IN
          /\ amm' = r.val
          /\ last' = [op |-> "new", ret |-> r.ret, err |-> r.err,
                      short |-> ~ split_at_ok(keyed_account.data),
                      misaligned |-> ~ try_from_bytes_ok(keyed_account.data),
                      unknown_layout |->
                          keyed_account.data.header.market_size_params
                              \notin SupportedSizeParams,
                      metadata_rejected |->
                          ~ keyed_account.data.header.metadata_ok]
          /\ origin' = IF r.ret = "Ok" THEN <<keyed_account>> ELSE <<>>
          /\ snapshot' = IF r.ret = "Ok" THEN <<keyed_account.data>> ELSE <<>>
    /\ UNCHANGED overflow_checks

Update(accounts_map) ==
    /\ amm # <<>>
    /\ LET r == update(amm[1], accounts_map) IN
          /\ amm' = <<r.self>>
          /\ last' = [op |-> "update", ret |-> r.ret, err |-> r.err,
                      has_key |-> amm[1].market_key \in DOMAIN accounts_map,
                      ladder_before |-> amm[1].ladder]
          /\ snapshot' = IF r.ret = "Ok"
                         THEN <<accounts_map[amm[1].market_key]>>
                         ELSE snapshot
    /\ UNCHANGED <<overflow_checks, origin>>

Quoted(r, quote_params, first_leg) ==
    [op |-> "quote", ret |-> r.ret, err |-> r.err, params |-> quote_params,
     out_amount |-> r.out_amount, overflowed |-> r.overflowed,
     fills |-> r.fills, first_leg |-> first_leg]

QuoteCall(quote_params, first_leg) ==
    /\ last' = Quoted(quote(amm[1], quote_params, overflow_checks),
                      quote_params, first_leg)
    /\ UNCHANGED <<amm, overflow_checks, origin, snapshot>>

Quote(quote_params) ==
    /\ amm # <<>>
    /\ QuoteCall(quote_params, <<>>)

\* The test's second quote: the output of a base -> quote quote is the input
\* of a quote -> base quote on the same adapter.
QuoteBack ==
    /\ amm # <<>>
    /\ last.op = "quote"
    /\ last.ret = "Ok"
    /\ last.params.input_mint = amm[1].base_mint
    /\ last.params.output_mint = amm[1].quote_mint
    /\ QuoteCall([in_amount |-> last.out_amount,
                  input_mint |-> amm[1].quote_mint,
                  output_mint |-> amm[1].base_mint],
                 <<[in_amount |-> last.params.in_amount,
                    overflowed |-> last.overflowed]>>)

Next ==
    \/ \E keyed_account \in KeyedAccounts : Construct(keyed_account)
    \/ \E accounts_map \in AccountsMaps : Update(accounts_map)
    \/ \E quote_params \in QuoteParamsSet : Quote(quote_params)
    \/ QuoteBack

Spec == Init /\ [][Next]_vars
(***************************************************************************)
(* What the properties below speak of.                                     *)
(***************************************************************************)
Self == amm[1]

IsQuote == last.op = "quote"

\* if quote_params.input_mint == self.base_mint: the last quote walked the
\* bids.
SellsBase ==
    /\ IsQuote
    /\ last.params.input_mint = Self.base_mint

\* else: the last quote walked the asks.
BuysBase ==
    /\ IsQuote
    /\ last.params.input_mint # Self.base_mint

RECURSIVE SumSizes(_, _)
SumSizes(levels, n) ==
    IF n = 0 THEN Zero
    ELSE Add(levels[n].size_in_base_lots, SumSizes(levels, n - 1))

RECURSIVE SumSeq(_)
SumSeq(s) == IF s = <<>> THEN Zero ELSE Add(Head(s), SumSeq(Tail(s)))

ExactSatSub(a, b) == IF Le(b, a) THEN Sub(a, b) ELSE Zero

\* The mints of the last quote are the market's pair, in one order or the
\* other.
C1_MarketPair ==
    \/ /\ last.params.input_mint = Self.base_mint
       /\ last.params.output_mint = Self.quote_mint
    \/ /\ last.params.input_mint = Self.quote_mint
       /\ last.params.output_mint = Self.base_mint

\* C1: a quote for a mint pair that is not (base_mint, quote_mint) or
\* (quote_mint, base_mint) of the market returns the error InvalidMintPair
\* and no out_amount; quote succeeds only for the market's own pair.
C1_InvalidMintPairRejected ==
    (IsQuote /\ ~ C1_MarketPair)
        => (last.ret = "Err" /\ last.err = "InvalidMintPair")

\* C2: direction symmetry: when the out_amount of a base -> quote quote of
\* x base atoms is quoted back quote -> base on the same snapshot, the
\* base atoms that come out do not exceed x.
C2_RoundTripCreatesNoValue ==
    (IsQuote /\ last.first_leg # <<>> /\ last.ret = "Ok")
        => Le(last.out_amount, last.first_leg[1].in_amount)

\* The concrete scenario of C3: lots of 1_000_000 base atoms and 1 quote
\* atom, one base lot per base unit, a tick of one quote atom, no taker fee,
\* the only ask (100, 5), and a quote -> base quote of 2_000_000.
C3_Scenario ==
    /\ BuysBase
    /\ last.params.input_mint = Self.quote_mint
    /\ last.params.output_mint = Self.base_mint
    /\ Self.market_metadata.base_atoms_per_base_lot = FromNat(1000000)
    /\ Self.market_metadata.quote_atoms_per_quote_lot = FromNat(1)
    /\ Self.market_metadata.num_base_lots_per_base_unit = FromNat(1)
    /\ Self.market_metadata.tick_size_in_quote_atoms_per_base_unit = FromNat(1)
    /\ Self.taker_fee_bps = 0
    /\ Self.ladder.asks = <<Order(FromNat(100), FromNat(5))>>
    /\ last.params.in_amount = FromNat(2000000)

\* C3 as claimed: in the scenario quote returns exactly 2_000_000 base
\* atoms (2 base lots filled).
C3_ScenarioFillsTwoLots ==
    C3_Scenario => (last.ret = "Ok" /\ last.out_amount = FromNat(2000000))

\* C3 as amended: in the scenario quote returns exactly 5_000_000 base
\* atoms: the budget of 2_000_000 quote lots affords 20_000 lots at price
\* 100, so the whole ask of 5 base lots is filled.
C3_ScenarioFillsWholeAsk ==
    C3_Scenario =>
        (/\ last.ret = "Ok"
         /\ last.out_amount = FromNat(5000000)
         /\ last.fills = <<FromNat(5)>>)

C3_ScenarioQuoted == C3_Scenario /\ last.ret = "Ok"

\* C4: an update whose accounts map has no entry for the market's own key
\* returns an error, it does not panic, and the ladder held before the call
\* is unchanged.
C4_MissingAccountIsAnError ==
    (last.op = "update" /\ ~ last.has_key)
        => (last.ret = "Err" /\ Self.ladder = last.ladder_before)

\* C5: construction on account bytes shorter than the header, failing the
\* header decode, or with size parameters of no known layout returns an
\* error and yields no adapter; it never panics.
C5_BadBytesFailConstruction ==
    (last.op = "new" /\ (\/ last.short \/ last.misaligned
                         \/ last.unknown_layout \/ last.metadata_rejected))
        => (last.ret = "Err" /\ amm = <<>>)

\* The cases of C6: the input is smaller than one lot of the asset the walk
\* takes it for (base when the bids are walked, quote when the asks are),
\* or the side of the ladder that is walked is empty.
C6_NothingToFill ==
    \/ /\ SellsBase
       /\ \/ Lt(last.params.in_amount,
                Self.market_metadata.base_atoms_per_base_lot)
          \/ Self.ladder.bids = <<>>
    \/ /\ BuysBase
       /\ \/ Lt(last.params.in_amount,
                Self.market_metadata.quote_atoms_per_quote_lot)
          \/ Self.ladder.asks = <<>>

\* C6: quote returns Ok with out_amount 0, never an error, whenever the
\* input amount is below one lot of the input asset or the walked side of
\* the ladder is empty, in either direction.
C6_DustAndEmptySideQuoteZero ==
    C6_NothingToFill => (last.ret = "Ok" /\ last.out_amount = Zero)

\* A sale of a positive amount below one base lot into bids that are there.
C6_DustQuoted ==
    /\ SellsBase
    /\ last.params.in_amount # Zero
    /\ Lt(last.params.in_amount, Self.market_metadata.base_atoms_per_base_lot)
    /\ Self.ladder.bids # <<>>
    /\ last.ret = "Ok"
(***************************************************************************)
(* The reference of C7 for Case B, in exact arithmetic and with the tick   *)
(* size in quote LOTS per base unit per tick.                              *)
(***************************************************************************)
tick_size_in_quote_lots(meta) ==
    Div(meta.tick_size_in_quote_atoms_per_base_unit,
        meta.quote_atoms_per_quote_lot)

RefAffordable(meta, level, budget) ==
    Div(Mul(budget, meta.num_base_lots_per_base_unit),
        Mul(tick_size_in_quote_lots(meta), level.price_in_ticks))

RefLevelCost(meta, level) ==
    Div(Mul(Mul(level.price_in_ticks, level.size_in_base_lots),
            tick_size_in_quote_lots(meta)),
        meta.num_base_lots_per_base_unit)

RECURSIVE RefWalkAsks(_, _, _, _, _)
RefWalkAsks(meta, asks, i, budget, out) ==
    IF i > Len(asks) \/ budget = Zero THEN out
    ELSE RefWalkAsks(meta, asks, i + 1,
             ExactSatSub(budget, RefLevelCost(meta, asks[i])),
             Add(out, Mul(Min(asks[i].size_in_base_lots,
                              RefAffordable(meta, asks[i], budget)),
                          meta.base_atoms_per_base_lot)))

RefCaseB(self, in_amount) ==
    Div(Mul(RefWalkAsks(self.market_metadata, self.ladder.asks, 1,
                Div(in_amount, self.market_metadata.quote_atoms_per_quote_lot),
                Zero),
            FromNat(FeeDenominator - self.taker_fee_bps)),
        FromNat(FeeDenominator))

\* C7: for a quote -> base quote the code's out_amount equals the reference
\* walk of the asks whose affordable lots and level cost are computed with
\* the tick size in quote lots, for every market, those with a quote lot of
\* more than one atom included.  (Stated for the quotes in which no result
\* exceeded 64 bits.)
C7_CaseBMatchesQuoteLotReference ==
    (BuysBase /\ last.ret = "Ok" /\ ~ last.overflowed)
        => last.out_amount = RefCaseB(Self, last.params.in_amount)

\* The base lot budget of the last quote.
C8_Budget ==
    Div(last.params.in_amount, Self.market_metadata.base_atoms_per_base_lot)

\* C8: in a walk of the bids, level i fills min(size, what is left of the
\* budget after the full sizes of the levels before it), the walk goes on
\* exactly while budget is left and bids remain, and so the base lots
\* filled in total are min(budget, sum of all bid sizes), no level being
\* filled beyond its size.
C8_BidWalkFillsWithinBudget ==
    (IsQuote /\ last.params.input_mint = Self.base_mint /\ last.ret = "Ok")
        => LET bids == Self.ladder.bids
               n    == Len(last.fills)
           IN  /\ n <= Len(bids)
               /\ \A i \in 1..n :
                     /\ last.fills[i] =
                            Min(bids[i].size_in_base_lots,
                                ExactSatSub(C8_Budget, SumSizes(bids, i - 1)))
                     /\ Le(last.fills[i], bids[i].size_in_base_lots)
                     /\ Lt(SumSizes(bids, i - 1), C8_Budget)
               /\ n = Len(bids) \/ Le(C8_Budget, SumSizes(bids, n))
               /\ SumSeq(last.fills) =
                      Min(C8_Budget, SumSizes(bids, Len(bids)))

\* A sale that fills a first level whole and a later one in part.
C8_PartialLevelQuoted ==
    /\ IsQuote
    /\ last.params.input_mint = Self.base_mint
    /\ last.ret = "Ok"
    /\ Len(last.fills) >= 2
    /\ Lt(last.fills[Len(last.fills)],
          Self.ladder.bids[Len(last.fills)].size_in_base_lots)

\* C9: no intermediate result of quote silently wraps: when a product or
\* the running sum does not fit the integer width, quote returns the error
\* ArithmeticOverflow, and never an out_amount computed from a value
\* reduced modulo 2^64.
C9_OverflowIsSurfaced ==
    (IsQuote /\ last.overflowed)
        => (last.ret = "Err" /\ last.err = "ArithmeticOverflow")

\* C10: the adapter's market_key, mints, market metadata and taker fee are
\* those decoded at construction, and its ladder is, in full, the ladder
\* decoded from the data of the most recent update that succeeded (of the
\* construction when none did), whatever update and quote calls were made.
C10_MetadataFrozenLadderReplaced ==
    amm # <<>> =>
        /\ origin # <<>> /\ snapshot # <<>>
        /\ Self.market_key = origin[1].key
        /\ Self.base_mint = origin[1].data.header.base_mint
        /\ Self.quote_mint = origin[1].data.header.quote_mint
        /\ Self.market_metadata = from_header(origin[1].data.header).val[1]
        /\ Self.taker_fee_bps = as_u16(origin[1].data.market.taker_fee_bps)
        /\ Self.ladder = get_ladder(snapshot[1].market)

\* An update succeeded on data whose taker fee and book differ from those
\* the adapter was built from.
C10_RefreshedFromOtherData ==
    /\ amm # <<>>
    /\ last.op = "update"
    /\ last.ret = "Ok"
    /\ snapshot[1].market.taker_fee_bps # origin[1].data.market.taker_fee_bps
    /\ Self.ladder # last.ladder_before
=============================================================================
